---------------------------- MODULE Spec2Model ----------------------------
(***************************************************************************)
(* Model of the WooCommerce/Aelia edge-cache worker (src/index.js).        *)
(*                                                                         *)
(* A JavaScript string is modelled as the sequence of the bytes of its     *)
(* UTF-8 encoding.  A printable ASCII byte is the one-character string of  *)
(* that character; every other byte 0xHH (and the grave accent 0x60, which *)
(* a TLA+ string cannot hold) is the token "<HH>".  On                     *)
(* well-formed strings this representation is one-to-one, and equality,    *)
(* concatenation, startsWith/endsWith and splitting on an ASCII character  *)
(* act on it as they act on the JavaScript string.                         *)
(***************************************************************************)
EXTENDS Integers, Sequences, FiniteSets, Bags, TLC

(***************************************************************************)
(* Bytes and characters                                                    *)
(***************************************************************************)
ByteTable == <<
     "<00>", "<01>", "<02>", "<03>", "<04>", "<05>", "<06>", "<07>", "<08>", "<09>", "<0A>", "<0B>", "<0C>", "<0D>", "<0E>", "<0F>",
     "<10>", "<11>", "<12>", "<13>", "<14>", "<15>", "<16>", "<17>", "<18>", "<19>", "<1A>", "<1B>", "<1C>", "<1D>", "<1E>", "<1F>",
     " ", "!", "\"", "#", "$", "%", "&", "'", "(", ")", "*", "+", ",", "-", ".", "/",
     "0", "1", "2", "3", "4", "5", "6", "7", "8", "9", ":", ";", "<", "=", ">", "?",
     "@", "A", "B", "C", "D", "E", "F", "G", "H", "I", "J", "K", "L", "M", "N", "O",
     "P", "Q", "R", "S", "T", "U", "V", "W", "X", "Y", "Z", "[", "\\", "]", "^", "_",
     "<60>", "a", "b", "c", "d", "e", "f", "g", "h", "i", "j", "k", "l", "m", "n", "o",
     "p", "q", "r", "s", "t", "u", "v", "w", "x", "y", "z", "{", "|", "}", "~", "<7F>",
     "<80>", "<81>", "<82>", "<83>", "<84>", "<85>", "<86>", "<87>", "<88>", "<89>", "<8A>", "<8B>", "<8C>", "<8D>", "<8E>", "<8F>",
     "<90>", "<91>", "<92>", "<93>", "<94>", "<95>", "<96>", "<97>", "<98>", "<99>", "<9A>", "<9B>", "<9C>", "<9D>", "<9E>", "<9F>",
     "<A0>", "<A1>", "<A2>", "<A3>", "<A4>", "<A5>", "<A6>", "<A7>", "<A8>", "<A9>", "<AA>", "<AB>", "<AC>", "<AD>", "<AE>", "<AF>",
     "<B0>", "<B1>", "<B2>", "<B3>", "<B4>", "<B5>", "<B6>", "<B7>", "<B8>", "<B9>", "<BA>", "<BB>", "<BC>", "<BD>", "<BE>", "<BF>",
     "<C0>", "<C1>", "<C2>", "<C3>", "<C4>", "<C5>", "<C6>", "<C7>", "<C8>", "<C9>", "<CA>", "<CB>", "<CC>", "<CD>", "<CE>", "<CF>",
     "<D0>", "<D1>", "<D2>", "<D3>", "<D4>", "<D5>", "<D6>", "<D7>", "<D8>", "<D9>", "<DA>", "<DB>", "<DC>", "<DD>", "<DE>", "<DF>",
     "<E0>", "<E1>", "<E2>", "<E3>", "<E4>", "<E5>", "<E6>", "<E7>", "<E8>", "<E9>", "<EA>", "<EB>", "<EC>", "<ED>", "<EE>", "<EF>",
     "<F0>", "<F1>", "<F2>", "<F3>", "<F4>", "<F5>", "<F6>", "<F7>", "<F8>", "<F9>", "<FA>", "<FB>", "<FC>", "<FD>", "<FE>", "<FF>" >>

ByteChar(b) == ByteTable[b + 1]

ByteOf == [c \in {ByteTable[i] : i \in 1..256} |->
             (CHOOSE i \in 1..256 : ByteTable[i] = c) - 1]

CharByte(c) == ByteOf[c]

HexDigits == <<"0","1","2","3","4","5","6","7","8","9","A","B","C","D","E","F">>

\* The value of a hexadecimal digit, upper or lower case.
HexValue ==
  [c \in {HexDigits[i] : i \in 1..16} \cup {"a", "b", "c", "d", "e", "f"} |->
     IF \E i \in 1..16 : HexDigits[i] = c
     THEN (CHOOSE i \in 1..16 : HexDigits[i] = c) - 1
     ELSE CharByte(c) - 87]

HexVal(c) == HexValue[c]

IsHex(c) == c \in DOMAIN HexValue

PctEscape(b) == <<"%", HexDigits[(b \div 16) + 1], HexDigits[(b % 16) + 1]>>

AlnumChars ==
  {ByteTable[b + 1] : b \in (48..57) \cup (65..90) \cup (97..122)}

IsAlnum(c) == c \in AlnumChars

(***************************************************************************)
(* String primitives of the JavaScript runtime                             *)
(***************************************************************************)
StartsWith(s, p) == Len(p) <= Len(s) /\ SubSeq(s, 1, Len(p)) = p

EndsWith(s, p) ==
  Len(p) <= Len(s) /\ SubSeq(s, Len(s) - Len(p) + 1, Len(s)) = p

\* String.prototype.indexOf for a one-character needle, 1-based; 0 when absent.
IndexOf(s, c) ==
  IF \E i \in 1..Len(s) : s[i] = c
  THEN CHOOSE i \in 1..Len(s) : s[i] = c /\ \A j \in 1..(i - 1) : s[j] # c
  ELSE 0

\* String.prototype.split with a one-character separator.
RECURSIVE Split(_, _)
Split(s, c) ==
  LET i == IndexOf(s, c)
  IN  IF i = 0 THEN <<s>>
      ELSE <<SubSeq(s, 1, i - 1)>> \o Split(SubSeq(s, i + 1, Len(s)), c)

RECURSIVE Join(_, _)
Join(parts, sep) ==
  IF parts = <<>> THEN <<>>
  ELSE IF Len(parts) = 1 THEN parts[1]
  ELSE parts[1] \o sep \o Join(Tail(parts), sep)

\* The ASCII white space String.prototype.trim removes.
IsSpace(c) == c \in {" ", "<09>", "<0A>", "<0B>", "<0C>", "<0D>"}

RECURSIVE TrimStart(_)
TrimStart(s) ==
  IF s # <<>> /\ IsSpace(Head(s)) THEN TrimStart(Tail(s)) ELSE s

RECURSIVE TrimEnd(_)
TrimEnd(s) ==
  IF s # <<>> /\ IsSpace(s[Len(s)]) THEN TrimEnd(SubSeq(s, 1, Len(s) - 1)) ELSE s

Trim(s) == TrimEnd(TrimStart(s))

(***************************************************************************)
(* UTF-8 (Unicode table 3-7): how many bytes a sequence led by `lead` has  *)
(* (0: no sequence starts with it), and whether b may be its k-th byte.    *)
(***************************************************************************)
Utf8Need(lead) ==
  IF lead < 128 THEN 1
  ELSE IF 194 <= lead /\ lead <= 223 THEN 2
  ELSE IF 224 <= lead /\ lead <= 239 THEN 3
  ELSE IF 240 <= lead /\ lead <= 244 THEN 4
  ELSE 0

Utf8ContOk(lead, k, b) ==
  LET lo == IF k = 2 /\ lead = 224 THEN 160
            ELSE IF k = 2 /\ lead = 240 THEN 144 ELSE 128
      hi == IF k = 2 /\ lead = 237 THEN 159
            ELSE IF k = 2 /\ lead = 244 THEN 143 ELSE 191
  IN  lo <= b /\ b <= hi

\* s[i..] starts with "%" and two hexadecimal digits.
IsEscapeAt(s, i) ==
  i + 2 <= Len(s) /\ s[i] = "%" /\ IsHex(s[i + 1]) /\ IsHex(s[i + 2])

EscapeByteAt(s, i) == 16 * HexVal(s[i + 1]) + HexVal(s[i + 2])

(***************************************************************************)
(* decodeURIComponent: a result [ok, val]; ok = FALSE is the URIError the  *)
(* built-in throws on a "%" that does not start a well-formed escape of a  *)
(* well-formed UTF-8 sequence.                                             *)
(***************************************************************************)
URIError == [ok |-> FALSE, val |-> <<>>]

RECURSIVE decodeURIComponent(_)
decodeURIComponent(s) ==
  IF s = <<>> THEN [ok |-> TRUE, val |-> <<>>]
  ELSE IF Head(s) # "%"
  THEN LET r == decodeURIComponent(Tail(s))
       IN  IF r.ok THEN [ok |-> TRUE, val |-> <<Head(s)>> \o r.val] ELSE URIError
  ELSE IF ~IsEscapeAt(s, 1) THEN URIError
  ELSE
    LET lead == EscapeByteAt(s, 1)
        n    == Utf8Need(lead)
    IN  IF n = 0 THEN URIError
        ELSE IF Len(s) < 3 * n THEN URIError
        ELSE IF \E k \in 2..n :
                  \/ ~IsEscapeAt(s, 3 * k - 2)
                  \/ ~Utf8ContOk(lead, k, EscapeByteAt(s, 3 * k - 2))
        THEN URIError
        ELSE LET r == decodeURIComponent(SubSeq(s, 3 * n + 1, Len(s)))
             IN  IF r.ok
                 THEN [ok  |-> TRUE,
                       val |-> [k \in 1..n |-> ByteChar(EscapeByteAt(s, 3 * k - 2))]
                               \o r.val]
                 ELSE URIError

\* encodeURIComponent: every byte but A-Z a-z 0-9 - _ . ! ~ * ' ( ) is escaped.
UriUnreserved(c) ==
  IsAlnum(c) \/ c \in {"-", "_", ".", "!", "~", "*", "'", "(", ")"}

RECURSIVE encodeURIComponent(_)
encodeURIComponent(s) ==
  IF s = <<>> THEN <<>>
  ELSE (IF UriUnreserved(Head(s)) THEN <<Head(s)>> ELSE PctEscape(CharByte(Head(s))))
       \o encodeURIComponent(Tail(s))

(***************************************************************************)
(* URLSearchParams (application/x-www-form-urlencoded)                     *)
(***************************************************************************)
\* Percent-decoding of the URL standard: an ill-formed escape is kept as it is.
RECURSIVE PercentDecodeBytes(_)
PercentDecodeBytes(s) ==
  IF s = <<>> THEN <<>>
  ELSE IF IsEscapeAt(s, 1)
  THEN <<EscapeByteAt(s, 1)>> \o PercentDecodeBytes(SubSeq(s, 4, Len(s)))
  ELSE <<CharByte(Head(s))>> \o PercentDecodeBytes(Tail(s))

\* U+FFFD in UTF-8.
Replacement == <<"<EF>", "<BF>", "<BD>">>

\* The number of bytes of the longest well-formed prefix of the sequence led by
\* bs[1] (between 1 and Utf8Need, the lead byte included).
RECURSIVE Utf8Run(_, _)
Utf8Run(bs, k) ==
  IF k > Utf8Need(bs[1]) \/ k > Len(bs) THEN k - 1
  ELSE IF Utf8ContOk(bs[1], k, bs[k]) THEN Utf8Run(bs, k + 1)
  ELSE k - 1

\* UTF-8 decode without BOM: each ill-formed maximal subpart becomes U+FFFD.
RECURSIVE Utf8DecodeLossy(_)
Utf8DecodeLossy(bs) ==
  IF bs = <<>> THEN <<>>
  ELSE
    LET n == Utf8Need(bs[1])
    IN  IF n = 0 THEN Replacement \o Utf8DecodeLossy(Tail(bs))
        ELSE LET m == Utf8Run(bs, 2)
             IN  (IF m = n THEN [k \in 1..n |-> ByteChar(bs[k])] ELSE Replacement)
                 \o Utf8DecodeLossy(SubSeq(bs, m + 1, Len(bs)))

PlusToSpace(s) == [i \in 1..Len(s) |-> IF s[i] = "+" THEN " " ELSE s[i]]

FormDecode(s) == Utf8DecodeLossy(PercentDecodeBytes(PlusToSpace(s)))

\* The urlencoded parser: a sequence of <<name, value>> pairs.
RECURSIVE FormParsePieces(_)
FormParsePieces(pieces) ==
  IF pieces = <<>> THEN <<>>
  ELSE
    LET p == Head(pieces)
        i == IndexOf(p, "=")
        name  == IF i = 0 THEN p ELSE SubSeq(p, 1, i - 1)
        value == IF i = 0 THEN <<>> ELSE SubSeq(p, i + 1, Len(p))
    IN  (IF p = <<>> THEN <<>> ELSE <<  <<FormDecode(name), FormDecode(value)>>  >>)
        \o FormParsePieces(Tail(pieces))

FormParse(query) == FormParsePieces(Split(query, "&"))

\* The urlencoded byte serializer.
RECURSIVE FormEncode(_)
FormEncode(s) ==
  IF s = <<>> THEN <<>>
  ELSE (IF Head(s) = " " THEN <<"+">>
        ELSE IF IsAlnum(Head(s)) \/ Head(s) \in {"*", "-", ".", "_"} THEN <<Head(s)>>
        ELSE PctEscape(CharByte(Head(s))))
       \o FormEncode(Tail(s))

FormSerialize(list) ==
  Join([i \in 1..Len(list) |-> FormEncode(list[i][1]) \o <<"=">> \o FormEncode(list[i][2])],
       <<"&">>)

\* URLSearchParams.set: the first pair named `name` takes the value and the
\* other pairs of that name are removed; without one, the pair is appended.
RECURSIVE DropNamed(_, _)
DropNamed(list, name) ==
  IF list = <<>> THEN <<>>
  ELSE (IF Head(list)[1] = name THEN <<>> ELSE <<Head(list)>>)
       \o DropNamed(Tail(list), name)

SearchParamsSet(list, name, value) ==
  IF \E i \in 1..Len(list) : list[i][1] = name
  THEN LET i == CHOOSE i \in 1..Len(list) :
                  list[i][1] = name /\ \A j \in 1..(i - 1) : list[j][1] # name
       IN  SubSeq(list, 1, i - 1) \o << <<name, value>> >>
           \o DropNamed(SubSeq(list, i + 1, Len(list)), name)
  ELSE Append(list, <<name, value>>)

(***************************************************************************)
(* URL objects: [protocol, host, pathname, query, hasQuery].  `hasQuery`   *)
(* is FALSE for the null query of a URL without "?".                       *)
(***************************************************************************)
\* The first index of s at or after i that holds one of `stops`; Len(s)+1 if none.
RECURSIVE ScanTo(_, _, _)
ScanTo(s, i, stops) ==
  IF i > Len(s) \/ s[i] \in stops THEN i ELSE ScanTo(s, i + 1, stops)

\* new URL(href) for an absolute special-scheme URL in serialized form.
NewURL(href) ==
  LET c  == IndexOf(href, ":")
      a  == c + 3
      p  == ScanTo(href, a, {"/", "?", "#"})
      q  == ScanTo(href, p, {"?", "#"})
      f  == ScanTo(href, q, {"#"})
  IN  [protocol |-> SubSeq(href, 1, c),
       host     |-> SubSeq(href, a, p - 1),
       pathname |-> IF p = q THEN <<"/">> ELSE SubSeq(href, p, q - 1),
       hasQuery |-> q < f,
       query    |-> SubSeq(href, q + 1, f - 1)]

\* url.search: "" for a null or empty query.
UrlSearch(url) ==
  IF url.hasQuery /\ url.query # <<>> THEN <<"?">> \o url.query ELSE <<>>

\* url.toString() / url.href (no credentials, no fragment).
UrlToString(url) ==
  url.protocol \o <<"/", "/">> \o url.host \o url.pathname
  \o (IF url.hasQuery THEN <<"?">> \o url.query ELSE <<>>)

\* url.searchParams.set(name, value): the query becomes the serialized list.
UrlSearchParamsSet(url, name, value) ==
  LET list == SearchParamsSet(FormParse(url.query), name, value)
  IN  [url EXCEPT !.hasQuery = (list # <<>>), !.query = FormSerialize(list)]

(***************************************************************************)
(* src/index.js: configuration                                             *)
(***************************************************************************)
WOOCOMMERCE_BYPASS_COOKIES ==
  << <<"w","o","o","c","o","m","m","e","r","c","e","_","c","a","r","t","_","h","a","s","h">>,
     <<"w","o","o","c","o","m","m","e","r","c","e","_","i","t","e","m","s","_","i","n","_","c","a","r","t">>,
     <<"w","p","_","w","o","o","c","o","m","m","e","r","c","e","_","s","e","s","s","i","o","n","_">> >>

AELIA_CACHE_COOKIES ==
  << <<"a","e","l","i","a","_","c","s","_","s","e","l","e","c","t","e","d","_","c","u","r","r","e","n","c","y">>,
     <<"a","e","l","i","a","_","c","u","s","t","o","m","e","r","_","c","o","u","n","t","r","y">> >>

CACHE_TTL == 86400

(***************************************************************************)
(* src/index.js: parseCookies.  A jar is a function from cookie names to   *)
(* values; the result is [ok, jar], ok = FALSE when decodeURIComponent     *)
(* throws.                                                                 *)
(***************************************************************************)
EmptyJar == [n \in {} |-> <<>>]

\* cookies[name] = v on a plain object: "__proto__" reaches the prototype
\* setter, which ignores a string, so no own property is created.
JarSet(jar, name, v) ==
  IF name = <<"_","_","p","r","o","t","o","_","_">> THEN jar
  ELSE [n \in DOMAIN jar \cup {name} |-> IF n = name THEN v ELSE jar[n]]

RECURSIVE ParseFragments(_, _)
ParseFragments(frags, jar) ==
  IF frags = <<>> THEN [ok |-> TRUE, jar |-> jar]
  ELSE
    LET parts == Split(Trim(Head(frags)), "=")
        name  == parts[1]
        value == IF Len(parts) >= 2 THEN parts[2] ELSE <<>>
    IN  IF name # <<>> /\ value # <<>>
        THEN LET d == decodeURIComponent(value)
             IN  IF d.ok
                 THEN ParseFragments(Tail(frags), JarSet(jar, name, d.val))
                 ELSE [ok |-> FALSE, jar |-> EmptyJar]
        ELSE ParseFragments(Tail(frags), jar)

parseCookies(cookieHeader) ==
  IF cookieHeader = <<>> THEN [ok |-> TRUE, jar |-> EmptyJar]
  ELSE ParseFragments(Split(cookieHeader, ";"), EmptyJar)

(***************************************************************************)
(* src/index.js: shouldBypassCache, isShopOrProductPath, generateCacheKey  *)
(***************************************************************************)
\* Faulty variant: every pattern is matched as a prefix.
PatternMatches_AlwaysPrefix(pattern, cookieName) == StartsWith(cookieName, pattern)

PatternMatches(pattern, cookieName) ==
  IF EndsWith(pattern, <<"_">>)
  THEN StartsWith(cookieName, pattern)
  ELSE cookieName = pattern

\* Faulty variant: the cookie test never asks for a bypass.
shouldBypassCache_Never(cookies) == FALSE

shouldBypassCache(cookies) ==
  \E i \in 1..Len(WOOCOMMERCE_BYPASS_COOKIES) :
    \E cookieName \in DOMAIN cookies :
      PatternMatches(WOOCOMMERCE_BYPASS_COOKIES[i], cookieName)

\* Faulty variant: the product prefix without its trailing slash.
isShopOrProductPath_NoSlash(pathname) ==
  StartsWith(pathname, <<"/","s","h","o","p">>) \/ StartsWith(pathname, <<"/","p","r","o","d","u","c","t">>)

isShopOrProductPath(pathname) ==
  StartsWith(pathname, <<"/","s","h","o","p">>) \/ StartsWith(pathname, <<"/","p","r","o","d","u","c","t","/">>)

\* cookies[cookieName] || 'default'
CookieOrDefault(cookies, cookieName) ==
  IF cookieName \in DOMAIN cookies /\ cookies[cookieName] # <<>>
  THEN cookies[cookieName]
  ELSE <<"d","e","f","a","u","l","t">>

BaseKey(url) ==
  url.protocol \o <<"/", "/">> \o url.host \o url.pathname \o UrlSearch(url)

AeliaCookieValues(cookies) ==
  Join([i \in 1..Len(AELIA_CACHE_COOKIES) |->
          AELIA_CACHE_COOKIES[i] \o <<"=">>
          \o CookieOrDefault(cookies, AELIA_CACHE_COOKIES[i])],
       <<"&">>)

generateCacheKey(url, cookies) ==
  IF isShopOrProductPath(url.pathname)
  THEN UrlToString(UrlSearchParamsSet(NewURL(BaseKey(url)), <<"a","e","l","i","a","_","c","a","c","h","e">>,
                                      encodeURIComponent(AeliaCookieValues(cookies))))
  ELSE BaseKey(url)

(***************************************************************************)
(* Responses: [status, body, headers]; headers map lower-cased names to    *)
(* values (Headers is case-insensitive).                                   *)
(***************************************************************************)
EmptyHeaders == [h \in {} |-> ""]

HeadersSet(headers, name, value) ==
  [h \in DOMAIN headers \cup {name} |-> IF h = name THEN value ELSE headers[h]]

\* headers.get(name) || fallback
HeadersGetOr(headers, name, fallback) ==
  IF name \in DOMAIN headers /\ headers[name] # "" THEN headers[name] ELSE fallback

\* `public, max-age=${CACHE_TTL}`
CacheControlValue == <<"public, max-age=", CACHE_TTL>>

\* Faulty variant: every status below 500 counts as a success.
ResponseOk_Below500(response) == response.status < 500

\* response.ok
ResponseOk(response) == 200 <= response.status /\ response.status <= 299

\* new Response('Internal Server Error', { status: 500 })
InternalServerError ==
  [status  |-> 500,
   body    |-> <<"Internal Server Error">>,
   headers |-> HeadersSet(EmptyHeaders, "content-type", "text/plain;charset=UTF-8")]

\* The copy handed to cache.put.
CachedResponse(response) ==
  [status  |-> response.status,
   body    |-> response.body,
   headers |-> HeadersSet(response.headers, "cache-control", CacheControlValue)]

\* Faulty variant: the hit response without the X-Cache-Key header.
HitResponse_NoKeyHeader(response, cacheKey) ==
  [status  |-> response.status,
   body    |-> response.body,
   headers |-> HeadersSet(response.headers, "cf-cache-status", "HIT")]

\* The response returned on a cache hit.
HitResponse(response, cacheKey) ==
  [status  |-> response.status,
   body    |-> response.body,
   headers |-> HeadersSet(HeadersSet(response.headers, "cf-cache-status", "HIT"),
                          "x-cache-key", cacheKey)]

\* The response returned on a cache miss.
MissResponse(response, cacheKey) ==
  [status  |-> response.status,
   body    |-> response.body,
   headers |->
     HeadersSet(
       HeadersSet(
         HeadersSet(response.headers, "cf-cache-status",
                    HeadersGetOr(response.headers, "cf-cache-status", "MISS")),
         "x-cache-key", cacheKey),
       "x-worker-cache", "MISS")]

\* The three bypass tests of handleRequest, in order.
BypassReason(method, url, cookies) ==
  IF method # "GET" THEN "method"
  ELSE IF StartsWith(url.pathname, <<"/","m","y","-","a","c","c","o","u","n","t">>) THEN "path"
  ELSE IF shouldBypassCache(cookies) THEN "cookie"
  ELSE "none"

(***************************************************************************)
(* The environment: requests, origin responses                             *)
(***************************************************************************)
\* How many requests one behaviour receives.
MaxRequests == 2

\* The requests in flight at one time; a slot is reused once its request is done.
Slots == {1, 2}

Methods == {"GET", "POST"}

MkUrl(pathname, query) ==
  [protocol |-> <<"h","t","t","p","s",":">>, host |-> <<"h">>, pathname |-> pathname,
   hasQuery |-> query # <<>>, query |-> query]

Urls ==
  { MkUrl(<<"/","s","h","o","p">>, <<>>),
    MkUrl(<<"/","a","b","o","u","t","-","u","s">>, <<>>),
    MkUrl(<<"/","m","y","-","a","c","c","o","u","n","t","/","o","r","d","e","r","s">>, <<>>) }

CookieHeaders ==
  { <<>>,
    <<"w","o","o","c","o","m","m","e","r","c","e","_","c","a","r","t","_","h","a","s","h","=","a","b","c","1","2","3">>,
    <<"a","e","l","i","a","_","c","s","_","s","e","l","e","c","t","e","d","_","c","u","r","r","e","n","c","y","=","E","U","R">>,
    <<"l","a","n","g","=","%">> }

\* What the origin may answer to fetch(request): the body names the request it
\* was produced for (the origin sees the original method, URL and cookies).
OriginBody(page, method, url, cookieHeader) == <<page, method, url, cookieHeader>>

OriginResponses(method, url, cookieHeader) ==
  { [status |-> 200, body |-> OriginBody("page-A", method, url, cookieHeader),
     headers |-> EmptyHeaders],
    [status |-> 200, body |-> OriginBody("page-B", method, url, cookieHeader),
     headers |-> HeadersSet(EmptyHeaders, "cf-cache-status", "DYNAMIC")],
    [status |-> 404, body |-> OriginBody("not-found", method, url, cookieHeader),
     headers |-> EmptyHeaders],
    [status |-> 500, body |-> OriginBody("origin-error", method, url, cookieHeader),
     headers |-> EmptyHeaders] }

OriginResponsesTo(r) == OriginResponses(r.method, r.url, r.cookieHeader)

NoResponse == [status |-> 0, body |-> <<>>, headers |-> EmptyHeaders]

(***************************************************************************)
(* State                                                                   *)
(***************************************************************************)
VARIABLES
  reqs,     \* slot -> the request being handled there (see IdleReq)
  store,    \* caches.default: cache key -> stored response
  pending,  \* the cache.put promises given to ctx.waitUntil: bag of [key, response]
  started,  \* how many requests have been received
  probe,    \* the argument and result of a pure function under test
  stale     \* keys whose entry outlived its max-age: cache.match no longer returns it

vars == <<reqs, store, pending, started, probe, stale>>

\* A request record: pc is where handleRequest is suspended; `response` is its
\* local variable `response` (the store's or the origin's answer), `returned`
\* what fetch() resolved with; lookups/fetches/puts count the cache.match,
\* fetch and cache.put calls it made.
IdleReq ==
  [pc |-> "idle", method |-> "", url |-> MkUrl(<<>>, <<>>),
   cookieHeader |-> <<>>, parsed |-> FALSE, cookies |-> EmptyJar,
   cacheKey |-> <<>>, branch |-> "none", response |-> NoResponse,
   returned |-> NoResponse, lookups |-> 0, fetches |-> 0, puts |-> 0]

NoProbe == [op |-> "none"]

Init ==
  /\ reqs = [s \in Slots |-> IdleReq]
  /\ store = [k \in {} |-> NoResponse]
  /\ pending = EmptyBag
  /\ started = 0
  /\ probe = NoProbe
  /\ stale = {}

\* cache.put(cacheKey, cachedResponse), as handed to ctx.waitUntil.
PutTask(cacheKey, cachedResponse) == [key |-> cacheKey, response |-> cachedResponse]

\* Faulty variant: a write replaces the whole store.
StorePut_ClearsOthers(st, key, response) == [k \in {key} |-> response]

StorePut(st, key, response) ==
  [k \in DOMAIN st \cup {key} |-> IF k = key THEN response ELSE st[k]]

StoreDelete(st, key) == [k \in DOMAIN st \ {key} |-> st[k]]

(***************************************************************************)
(* handleRequest, from its entry to its first await.  The slots are        *)
(* interchangeable, so a new request takes the lowest idle one.            *)
(***************************************************************************)
Receive(s, method, url, cookieHeader) ==
  /\ reqs[s].pc = "idle"
  /\ \A s2 \in Slots : s2 < s => reqs[s2].pc # "idle"
  /\ started < MaxRequests
  /\ started' = started + 1
  /\ LET p      == parseCookies(cookieHeader)
         base   == [IdleReq EXCEPT !.method = method,
                                   !.url = url, !.cookieHeader = cookieHeader]
         reason == BypassReason(method, url, p.jar)
     IN  reqs' = [reqs EXCEPT ![s] =
           IF ~p.ok
           THEN [base EXCEPT !.pc = "done", !.branch = "error",
                             !.returned = InternalServerError]
           ELSE IF reason # "none"
           THEN [base EXCEPT !.pc = "bypass", !.parsed = TRUE, !.cookies = p.jar,
                             !.branch = "bypass", !.fetches = 1]
           ELSE [base EXCEPT !.pc = "match", !.parsed = TRUE, !.cookies = p.jar,
                             !.cacheKey = generateCacheKey(url, p.jar),
                             !.lookups = 1]]
  /\ UNCHANGED <<store, pending, probe, stale>>

\* fetchFromOrigin resolves: the origin's response is returned as it is.
BypassReturn(s, originResponse) ==
  /\ reqs[s].pc = "bypass"
  /\ reqs' = [reqs EXCEPT ![s] = [@ EXCEPT !.pc = "done",
                                          !.response = originResponse,
                                          !.returned = originResponse]]
  /\ UNCHANGED <<store, pending, started, probe, stale>>

\* Faulty variant: fetch() without its try/catch, the rejection reaches the runtime.
AwaitFails_Rethrown(s) ==
  /\ reqs[s].pc \in {"bypass", "match", "fetch"}
  /\ reqs' = [reqs EXCEPT ![s] = [@ EXCEPT !.pc = "done", !.branch = "error"]]
  /\ UNCHANGED <<store, pending, started, probe, stale>>

\* An await rejects (network error, store error): the catch of fetch() answers.
AwaitFails(s) ==
  /\ reqs[s].pc \in {"bypass", "match", "fetch"}
  /\ reqs' = [reqs EXCEPT ![s] = [@ EXCEPT !.pc = "done", !.branch = "error",
                                          !.returned = InternalServerError]]
  /\ UNCHANGED <<store, pending, started, probe, stale>>

\* Faulty variant: the result of cache.match is ignored.
MatchReturn_AlwaysMiss(s) ==
  /\ reqs[s].pc = "match"
  /\ reqs' = [reqs EXCEPT ![s] = [@ EXCEPT !.pc = "fetch", !.branch = "miss",
                                          !.fetches = 1]]
  /\ UNCHANGED <<store, pending, started, probe, stale>>

\* cache.match resolves: a hit returns, a miss issues the origin fetch.
MatchReturn(s) ==
  /\ reqs[s].pc = "match"
  /\ LET r == reqs[s]
     IN  reqs' = [reqs EXCEPT ![s] =
           IF r.cacheKey \in DOMAIN store
           THEN [r EXCEPT !.pc = "done", !.branch = "hit",
                          !.response = store[r.cacheKey],
                          !.returned = HitResponse(store[r.cacheKey], r.cacheKey)]
           ELSE [r EXCEPT !.pc = "fetch", !.branch = "miss", !.fetches = 1]]
  /\ UNCHANGED <<store, pending, started, probe, stale>>

\* Faulty variant: the miss path awaits cache.put before it returns.
FetchReturn_AwaitsWrite(s, originResponse) ==
  /\ reqs[s].pc = "fetch"
  /\ LET r  == reqs[s]
         ok == ResponseOk(originResponse)
     IN  /\ reqs' = [reqs EXCEPT ![s] =
                [r EXCEPT !.pc = IF ok THEN "put" ELSE "done",
                          !.response = originResponse,
                          !.returned = IF ok THEN NoResponse
                                       ELSE MissResponse(originResponse, r.cacheKey),
                          !.puts = IF ok THEN 1 ELSE 0]]
         /\ pending' = IF ok
                       THEN pending (+) SetToBag({PutTask(r.cacheKey,
                                                          CachedResponse(originResponse))})
                       ELSE pending
  /\ UNCHANGED <<store, started, probe, stale>>

\* fetch(request, {cf: ...}) resolves on the miss path.
FetchReturn(s, originResponse) ==
  /\ reqs[s].pc = "fetch"
  /\ LET r  == reqs[s]
         ok == ResponseOk(originResponse)
     IN  /\ reqs' = [reqs EXCEPT ![s] =
                [r EXCEPT !.pc = "done", !.response = originResponse,
                          !.returned = MissResponse(originResponse, r.cacheKey),
                          !.puts = IF ok THEN 1 ELSE 0]]
         /\ pending' = IF ok
                       THEN pending (+) SetToBag({PutTask(r.cacheKey,
                                                          CachedResponse(originResponse))})
                       ELSE pending
  /\ UNCHANGED <<store, started, probe, stale>>

(***************************************************************************)
(* The runtime and the cache store                                         *)
(***************************************************************************)
\* Faulty variant: a write over an existing entry keeps the old headers.
PutComplete_Torn(t) ==
  /\ BagIn(t, pending)
  /\ store' = StorePut(store, t.key,
                       IF t.key \in DOMAIN store
                       THEN [t.response EXCEPT !.headers = store[t.key].headers]
                       ELSE t.response)
  /\ pending' = pending (-) SetToBag({t})
  /\ stale' = stale \ {t.key}
  /\ UNCHANGED <<reqs, started, probe>>

\* A cache.put given to ctx.waitUntil completes.
PutComplete(t) ==
  /\ BagIn(t, pending)
  /\ store' = StorePut(store, t.key, t.response)
  /\ pending' = pending (-) SetToBag({t})
  /\ stale' = stale \ {t.key}
  /\ UNCHANGED <<reqs, started, probe>>

\* Faulty variant: a rejected cache.put fails the request that scheduled it.
PutFails_Surfaced(t) ==
  /\ BagIn(t, pending)
  /\ pending' = pending (-) SetToBag({t})
  /\ reqs' = [s \in Slots |->
                IF reqs[s].pc = "done" /\ reqs[s].branch = "miss"
                   /\ reqs[s].cacheKey = t.key
                THEN [reqs[s] EXCEPT !.returned = InternalServerError]
                ELSE reqs[s]]
  /\ UNCHANGED <<store, started, probe, stale>>

\* A cache.put rejects: nobody awaits it.
PutFails(t) ==
  /\ BagIn(t, pending)
  /\ pending' = pending (-) SetToBag({t})
  /\ UNCHANGED <<reqs, store, started, probe, stale>>

\* The store drops an entry (expiry, eviction).
Evict(key) ==
  /\ key \in DOMAIN store
  /\ store' = StoreDelete(store, key)
  /\ UNCHANGED <<reqs, pending, started, probe, stale>>

\* Faulty variant: the writes a request scheduled are dropped with it.
Retire_CancelsWrite(s) ==
  /\ reqs[s].pc = "done"
  /\ reqs' = [reqs EXCEPT ![s] = IdleReq]
  /\ pending' = [t \in {u \in DOMAIN pending : u.key # reqs[s].cacheKey} |-> pending[t]]
  /\ UNCHANGED <<store, started, probe, stale>>

\* The response has been delivered; the request's state is discarded.
Retire(s) ==
  /\ reqs[s].pc = "done"
  /\ reqs' = [reqs EXCEPT ![s] = IdleReq]
  /\ UNCHANGED <<store, pending, started, probe, stale>>

Next ==
  \/ \E s \in Slots, m \in Methods, u \in Urls, h \in CookieHeaders : Receive(s, m, u, h)
  \/ \E s \in Slots : \E o \in OriginResponsesTo(reqs[s]) : BypassReturn(s, o)
  \/ \E s \in Slots : AwaitFails(s)
  \/ \E s \in Slots : MatchReturn(s)
  \/ \E s \in Slots : \E o \in OriginResponsesTo(reqs[s]) : FetchReturn(s, o)
  \/ \E t \in BagToSet(pending) : PutComplete(t)
  \/ \E t \in BagToSet(pending) : PutFails(t)
  \/ \E k \in DOMAIN store : Evict(k)
  \/ \E s \in Slots : Retire(s)

Spec == Init /\ [][Next]_vars

(***************************************************************************)
(* The dispatcher with entries that outlive their max-age.  The stored     *)
(* copy carries Cache-Control: max-age=CACHE_TTL; once it is older,        *)
(* cache.match no longer returns it (the Workers Cache API serves no stale *)
(* entries) and handleRequest has no other lookup.                         *)
(***************************************************************************)
Expire(key) ==
  /\ key \in DOMAIN store
  /\ store' = StoreDelete(store, key)
  /\ stale' = stale \cup {key}
  /\ UNCHANGED <<reqs, pending, started, probe>>

NextStale ==
  \/ Next
  \/ \E k \in DOMAIN store : Expire(k)

SpecStale == Init /\ [][NextStale]_vars

(***************************************************************************)
(* Fairness.  The runtime keeps running every promise given to             *)
(* ctx.waitUntil until it settles (SpecWrites); an await of handleRequest  *)
(* resumes once its promise settles (SpecSettles).  Progress does not      *)
(* depend on which page is asked for, so these specifications take their   *)
(* requests from a smaller set: two cacheable URLs, with and without a     *)
(* Cookie header that parseCookies rejects, under both methods.            *)
(***************************************************************************)
LiveUrls == { MkUrl(<<"/","s","h","o","p">>, <<>>), MkUrl(<<"/","a","b","o","u","t","-","u","s">>, <<>>) }

LiveCookieHeaders == { <<>>, <<"l","a","n","g","=","%">> }

NextLive ==
  \/ \E s \in Slots, m \in Methods, u \in LiveUrls, h \in LiveCookieHeaders :
       Receive(s, m, u, h)
  \/ \E s \in Slots : \E o \in OriginResponsesTo(reqs[s]) : BypassReturn(s, o)
  \/ \E s \in Slots : AwaitFails(s)
  \/ \E s \in Slots : MatchReturn(s)
  \/ \E s \in Slots : \E o \in OriginResponsesTo(reqs[s]) : FetchReturn(s, o)
  \/ \E t \in BagToSet(pending) : PutComplete(t)
  \/ \E t \in BagToSet(pending) : PutFails(t)
  \/ \E k \in DOMAIN store : Evict(k)
  \/ \E s \in Slots : Retire(s)

PutSettles(t) == PutComplete(t) \/ PutFails(t)

AwaitSettles(s) ==
  \/ \E o \in OriginResponsesTo(reqs[s]) : BypassReturn(s, o)
  \/ AwaitFails(s)
  \/ MatchReturn(s)
  \/ \E o \in OriginResponsesTo(reqs[s]) : FetchReturn(s, o)

\* Every cache.put these requests can hand to ctx.waitUntil.
PossibleTasks ==
  { PutTask(generateCacheKey(x[1], parseCookies(x[2]).jar), CachedResponse(x[3])) :
      x \in { y \in LiveUrls \X LiveCookieHeaders \X
                      UNION {OriginResponses("GET", u, h) :
                               u \in LiveUrls, h \in LiveCookieHeaders} :
                /\ parseCookies(y[2]).ok
                /\ BypassReason("GET", y[1], parseCookies(y[2]).jar) = "none"
                /\ y[3] \in OriginResponses("GET", y[1], y[2])
                /\ ResponseOk(y[3]) } }

SpecWrites ==
  Init /\ [][NextLive]_vars /\ \A t \in PossibleTasks : WF_vars(PutSettles(t))

SpecSettles ==
  Init /\ [][NextLive]_vars /\ \A s \in Slots : WF_vars(AwaitSettles(s))

(***************************************************************************)
(* shouldBypassCache as a function of the jar                              *)
(***************************************************************************)
\* How many cookies a jar holds.
MaxJarSize == 3

BypassNames ==
  { <<"w","o","o","c","o","m","m","e","r","c","e","_","c","a","r","t","_","h","a","s","h">>,
    <<"w","o","o","c","o","m","m","e","r","c","e","_","c","a","r","t","_","h","a","s","h","_","x">>,
    <<"x","w","o","o","c","o","m","m","e","r","c","e","_","c","a","r","t","_","h","a","s","h">>,
    <<"w","o","o","c","o","m","m","e","r","c","e","_","i","t","e","m","s","_","i","n","_","c","a","r","t">>,
    <<"w","o","o","c","o","m","m","e","r","c","e","_","i","t","e","m","s","_","i","n","_","c","a","r","t","2">>,
    <<"w","p","_","w","o","o","c","o","m","m","e","r","c","e","_","s","e","s","s","i","o","n","_">>,
    <<"w","p","_","w","o","o","c","o","m","m","e","r","c","e","_","s","e","s","s","i","o","n","_","a","b","1","2">>,
    <<"w","p","_","w","o","o","c","o","m","m","e","r","c","e","_","s","e","s","s","i","o","n">>,
    <<"l","a","n","g">> }

BypassJars ==
  { [n \in names |-> <<"1">>] :
      names \in {ns \in SUBSET BypassNames : Cardinality(ns) <= MaxJarSize} }

InitBypass ==
  /\ reqs = [s \in Slots |-> IdleReq]
  /\ store = [k \in {} |-> NoResponse]
  /\ pending = EmptyBag
  /\ started = 0
  /\ stale = {}
  /\ probe \in {[op |-> "shouldBypassCache", cookies |-> j, done |-> FALSE, out |-> FALSE] :
                  j \in BypassJars}

ApplyBypass ==
  /\ probe.op = "shouldBypassCache"
  /\ ~probe.done
  /\ probe' = [probe EXCEPT !.done = TRUE, !.out = shouldBypassCache(probe.cookies)]
  /\ UNCHANGED <<reqs, store, pending, started, stale>>

NextBypass == ApplyBypass

SpecBypass == InitBypass /\ [][NextBypass]_vars

(***************************************************************************)
(* generateCacheKey on two requests with the same scheme, host and path    *)
(***************************************************************************)
KeyPaths ==
  { <<"/","s","h","o","p","/","s","p","a","r","e","-","p","a","r","t","s">>, <<"/","p","r","o","d","u","c","t","/","w","i","d","g","e","t","-","1">>, <<"/","p","r","o","d","u","c","t","s">>, <<"/","a","b","o","u","t","-","u","s">> }

KeyQueries ==
  { <<>>, <<"s","o","r","t","=","p","r","i","c","e">>, <<"s","o","r","t","=","n","a","m","e">>, <<"a","e","l","i","a","_","c","a","c","h","e","=","1">>, <<"a","e","l","i","a","_","c","a","c","h","e","=","2">> }

KeyCookieHeaders ==
  { <<>>,
    <<"l","a","n","g","=","e","n">>,
    <<"a","e","l","i","a","_","c","s","_","s","e","l","e","c","t","e","d","_","c","u","r","r","e","n","c","y","=","U","S","D">>,
    <<"a","e","l","i","a","_","c","s","_","s","e","l","e","c","t","e","d","_","c","u","r","r","e","n","c","y","=","E","U","R">>,
    <<"a","e","l","i","a","_","c","u","s","t","o","m","e","r","_","c","o","u","n","t","r","y","=","U","S",";"," ","a","e","l","i","a","_","c","s","_","s","e","l","e","c","t","e","d","_","c","u","r","r","e","n","c","y","=","U","S","D">>,
    <<"a","e","l","i","a","_","c","s","_","s","e","l","e","c","t","e","d","_","c","u","r","r","e","n","c","y","=","U","S","D",";"," ","l","a","n","g","=","e","n",";"," ","a","e","l","i","a","_","c","u","s","t","o","m","e","r","_","c","o","u","n","t","r","y","=","U","S">>,
    <<"a","e","l","i","a","_","c","s","_","s","e","l","e","c","t","e","d","_","c","u","r","r","e","n","c","y","=","X",";"," ","a","e","l","i","a","_","c","u","s","t","o","m","e","r","_","c","o","u","n","t","r","y","=","Y","%","2","6","a","e","l","i","a","_","c","u","s","t","o","m","e","r","_","c","o","u","n","t","r","y","%","3","D","Z">>,
    <<"a","e","l","i","a","_","c","s","_","s","e","l","e","c","t","e","d","_","c","u","r","r","e","n","c","y","=","X","%","2","6","a","e","l","i","a","_","c","u","s","t","o","m","e","r","_","c","o","u","n","t","r","y","%","3","D","Y",";"," ","a","e","l","i","a","_","c","u","s","t","o","m","e","r","_","c","o","u","n","t","r","y","=","Z">> }

KeyJars == {parseCookies(h).jar : h \in KeyCookieHeaders}

InitKey ==
  /\ reqs = [s \in Slots |-> IdleReq]
  /\ store = [k \in {} |-> NoResponse]
  /\ pending = EmptyBag
  /\ started = 0
  /\ stale = {}
  /\ probe \in {[op |-> "generateCacheKey",
                 a |-> [url |-> MkUrl(p, qa), cookies |-> ja],
                 b |-> [url |-> MkUrl(p, qb), cookies |-> jb],
                 done |-> FALSE, keyA |-> <<>>, keyB |-> <<>>] :
                  p \in KeyPaths, qa \in KeyQueries, qb \in KeyQueries,
                  ja \in KeyJars, jb \in KeyJars}

ApplyKey ==
  /\ probe.op = "generateCacheKey"
  /\ ~probe.done
  /\ probe' = [probe EXCEPT !.done = TRUE,
                            !.keyA = generateCacheKey(probe.a.url, probe.a.cookies),
                            !.keyB = generateCacheKey(probe.b.url, probe.b.cookies)]
  /\ UNCHANGED <<reqs, store, pending, started, stale>>

NextKey == ApplyKey

SpecKey == InitKey /\ [][NextKey]_vars

(***************************************************************************)
(* Vocabulary of the claims                                                *)
(***************************************************************************)
\* The jar holds a cart or session cookie, as the documentation lists them.
HoldsCartOrSessionCookie(cookies) ==
  \E n \in DOMAIN cookies :
    \/ n = <<"w","o","o","c","o","m","m","e","r","c","e","_","c","a","r","t","_","h","a","s","h">>
    \/ n = <<"w","o","o","c","o","m","m","e","r","c","e","_","i","t","e","m","s","_","i","n","_","c","a","r","t">>
    \/ StartsWith(n, <<"w","p","_","w","o","o","c","o","m","m","e","r","c","e","_","s","e","s","s","i","o","n","_">>)

IsVariantPath(pathname) ==
  StartsWith(pathname, <<"/","s","h","o","p">>) \/ StartsWith(pathname, <<"/","p","r","o","d","u","c","t","/">>)

\* The jar value of a cookie, or the literal default when it is absent.
EffectiveValue(cookies, name) ==
  IF name \in DOMAIN cookies THEN cookies[name] ELSE <<"d","e","f","a","u","l","t">>

SameVariant(ca, cb) ==
  /\ EffectiveValue(ca, <<"a","e","l","i","a","_","c","s","_","s","e","l","e","c","t","e","d","_","c","u","r","r","e","n","c","y">>)
       = EffectiveValue(cb, <<"a","e","l","i","a","_","c","s","_","s","e","l","e","c","t","e","d","_","c","u","r","r","e","n","c","y">>)
  /\ EffectiveValue(ca, <<"a","e","l","i","a","_","c","u","s","t","o","m","e","r","_","c","o","u","n","t","r","y">>)
       = EffectiveValue(cb, <<"a","e","l","i","a","_","c","u","s","t","o","m","e","r","_","c","o","u","n","t","r","y">>)

\* scheme + host + path + raw query string
SchemeHostPathQuery(url) ==
  url.protocol \o <<"/","/">> \o url.host \o url.pathname
  \o (IF url.query # <<>> THEN <<"?">> \o url.query ELSE <<>>)

KeyProbeDone == probe.op = "generateCacheKey" /\ probe.done

(***************************************************************************)
(* C3: shouldBypassCache returns true iff some cookie name equals          *)
(* woocommerce_cart_hash, equals woocommerce_items_in_cart, or starts with *)
(* wp_woocommerce_session_ (any suffix, the empty one included); a name    *)
(* that only extends an exact pattern does not cause a bypass.             *)
(***************************************************************************)
C3_BypassIffCartOrSessionCookie ==
  (probe.op = "shouldBypassCache" /\ probe.done)
    => (probe.out <=> HoldsCartOrSessionCookie(probe.cookies))

C3_Witness ==
  /\ probe.op = "shouldBypassCache" /\ probe.done
  /\ DOMAIN probe.cookies = { <<"w","o","o","c","o","m","m","e","r","c","e","_","c","a","r","t","_","h","a","s","h","_","x">>, <<"w","p","_","w","o","o","c","o","m","m","e","r","c","e","_","s","e","s","s","i","o","n">> }
  /\ ~probe.out

(***************************************************************************)
(* C4: on a variant-sensitive path, two requests with the same URL get the *)
(* same key iff they agree on the effective values of both Aelia cookies.  *)
(***************************************************************************)
C4_SameKeyIffSameVariant ==
  (/\ KeyProbeDone
   /\ probe.a.url = probe.b.url
   /\ IsVariantPath(probe.a.url.pathname))
    => ((probe.keyA = probe.keyB) <=> SameVariant(probe.a.cookies, probe.b.cookies))

(***************************************************************************)
(* C5: on a plain path the key is scheme + host + path + raw query string: *)
(* it does not depend on the jar, and requests whose query strings differ  *)
(* get different keys.                                                     *)
(***************************************************************************)
C5_PlainKeyIsUrl ==
  (KeyProbeDone /\ ~IsVariantPath(probe.a.url.pathname))
    => /\ probe.keyA = SchemeHostPathQuery(probe.a.url)
       /\ probe.keyB = SchemeHostPathQuery(probe.b.url)
       /\ (probe.a.url = probe.b.url => probe.keyA = probe.keyB)
       /\ (probe.a.url.query # probe.b.url.query => probe.keyA # probe.keyB)

C5_Witness ==
  /\ KeyProbeDone
  /\ probe.a.url = MkUrl(<<"/","p","r","o","d","u","c","t","s">>, <<"s","o","r","t","=","p","r","i","c","e">>)
  /\ probe.b.url = probe.a.url
  /\ ~SameVariant(probe.a.cookies, probe.b.cookies)
  /\ probe.keyA = probe.keyB

(***************************************************************************)
(* C6: on a variant-sensitive path every query parameter of the request is *)
(* kept in the key, so two requests with the same variant cookie values    *)
(* whose query strings differ get different keys, also when the request    *)
(* carries a parameter named aelia_cache.                                  *)
(***************************************************************************)
C6_VariantKeyKeepsQuery ==
  (/\ KeyProbeDone
   /\ IsVariantPath(probe.a.url.pathname)
   /\ SameVariant(probe.a.cookies, probe.b.cookies)
   /\ probe.a.url.query # probe.b.url.query)
    => probe.keyA # probe.keyB

(***************************************************************************)
(* Vocabulary of the dispatcher claims                                     *)
(***************************************************************************)
Active(r) == r.pc # "idle"

\* Method is not GET, or the path starts with /my-account, or the jar holds a
\* cart or session cookie.
MeetsBypassCondition(r) ==
  \/ r.method # "GET"
  \/ StartsWith(r.url.pathname, <<"/","m","y","-","a","c","c","o","u","n","t">>)
  \/ (r.parsed /\ HoldsCartOrSessionCookie(r.cookies))

IsSuccessStatus(status) == status \in 200..299

\* A response as the store may hold it: a success status and the TTL header.
StorableCopy(response) ==
  /\ IsSuccessStatus(response.status)
  /\ "cache-control" \in DOMAIN response.headers
  /\ response.headers["cache-control"] = <<"public, max-age=", 86400>>

\* `headers` with the given diagnostic headers set and nothing else changed.
WithHeaders(headers, extra) ==
  [h \in DOMAIN headers \cup DOMAIN extra |->
     IF h \in DOMAIN extra THEN extra[h] ELSE headers[h]]

\* `stored` is the copy of a success response the origin gave to a cacheable
\* GET request whose derived key is `key`.
FetchedFor(stored, key) ==
  /\ Len(stored.body) = 4
  /\ stored.body[2] = "GET"
  /\ LET p == parseCookies(stored.body[4])
     IN  /\ p.ok
         /\ BypassReason("GET", stored.body[3], p.jar) = "none"
         /\ generateCacheKey(stored.body[3], p.jar) = key
  /\ \E o \in OriginResponses("GET", stored.body[3], stored.body[4]) :
       /\ IsSuccessStatus(o.status)
       /\ stored.status = o.status
       /\ stored.body = o.body

(***************************************************************************)
(* C1: a request that meets a bypass condition makes no store lookup and   *)
(* schedules no store write; its steps leave the store and the scheduled   *)
(* writes as they were, and its response is the origin's (or the error     *)
(* response), never a stored one.                                          *)
(***************************************************************************)
C1_BypassNeverTouchesStore ==
  /\ [](\A s \in Slots :
          LET r == reqs[s]
          IN  (Active(r) /\ MeetsBypassCondition(r))
                => /\ r.lookups = 0
                   /\ r.puts = 0
                   /\ r.branch \in {"bypass", "error"}
                   /\ (r.pc = "done" =>
                         r.returned \in OriginResponsesTo(r) \cup {InternalServerError}))
  /\ [][\A s \in Slots :
          ((MeetsBypassCondition(reqs[s]) \/ MeetsBypassCondition(reqs'[s]))
            /\ reqs'[s] # reqs[s])
            => (store' = store /\ pending' = pending)]_vars

C1_Witness ==
  \E s \in Slots :
    LET r == reqs[s]
    IN  /\ r.pc = "done" /\ r.method = "GET" /\ r.branch = "bypass"
        /\ r.url.pathname = <<"/","s","h","o","p">>
        /\ HoldsCartOrSessionCookie(r.cookies)
        /\ generateCacheKey(r.url, r.cookies) \in DOMAIN store
        /\ r.returned.status = 200

(***************************************************************************)
(* C2: every request whose method is not GET or whose path starts with     *)
(* /my-account takes the bypass branch - the origin is fetched and its     *)
(* response returned as it is - whatever cookies it carries.               *)
(***************************************************************************)
C2_BypassWhateverTheCookies ==
  \A s \in Slots :
    LET r == reqs[s]
    IN  (Active(r) /\ (r.method # "GET" \/ StartsWith(r.url.pathname, <<"/","m","y","-","a","c","c","o","u","n","t">>)))
          => /\ r.fetches = 1
             /\ r.lookups = 0
             /\ (r.pc = "done" /\ r.branch # "error" =>
                   r.returned = r.response /\ r.returned \in OriginResponsesTo(r))

C8_WriteIffSuccess ==
  /\ [](/\ \A s \in Slots :
             LET r == reqs[s]
             IN  (r.pc = "done" /\ r.branch = "miss")
                   => (r.puts = 1 <=> IsSuccessStatus(r.response.status))
        /\ \A t \in BagToSet(pending) : StorableCopy(t.response)
        /\ \A k \in DOMAIN store : StorableCopy(store[k]))
  /\ [][\A s \in Slots :
          (reqs[s].pc = "fetch" /\ reqs'[s].pc = "done" /\ reqs'[s].branch = "miss")
            => /\ store' = store
               /\ pending' =
                    IF IsSuccessStatus(reqs'[s].response.status)
                    THEN pending (+) SetToBag({
                           [key |-> generateCacheKey(reqs[s].url, reqs[s].cookies),
                            response |->
                              [status |-> reqs'[s].response.status,
                               body |-> reqs'[s].response.body,
                               headers |->
                                 WithHeaders(reqs'[s].response.headers,
                                             [h \in {"cache-control"} |->
                                                <<"public, max-age=", 86400>>])]]})
                    ELSE pending]_vars

C8_Witness ==
  \E s \in Slots :
    LET r == reqs[s]
    IN  /\ r.pc = "done" /\ r.branch = "miss" /\ r.puts = 1
        /\ r.response.status = 200
        /\ BagIn([key |-> r.cacheKey, response |-> CachedResponse(r.response)], pending)
        /\ \E s2 \in Slots :
             /\ reqs[s2].pc = "done" /\ reqs[s2].branch = "miss"
             /\ reqs[s2].response.status = 404 /\ reqs[s2].puts = 0

(***************************************************************************)
(* C9: on a miss with a success response the request is done while its     *)
(* store write is still outstanding, and the response the client got is    *)
(* the origin's - not an error - and does not change when the write        *)
(* completes or fails.                                                     *)
(***************************************************************************)
C9_ResponseNotTiedToWrite ==
  /\ [](\A s \in Slots :
          LET r == reqs[s]
          IN  (r.pc = "done" /\ r.branch = "miss" /\ IsSuccessStatus(r.response.status))
                => /\ r.returned.status = r.response.status
                   /\ r.returned.body = r.response.body
                   /\ r.returned # InternalServerError)
  /\ [][\A s \in Slots :
          (reqs[s].pc = "fetch" /\ reqs'[s].pc = "done" /\ reqs'[s].branch = "miss"
            /\ IsSuccessStatus(reqs'[s].response.status))
            => BagIn([key |-> reqs[s].cacheKey,
                      response |-> CachedResponse(reqs'[s].response)], pending')]_vars
  /\ [][\A s \in Slots :
          (reqs[s].pc = "done" /\ reqs'[s].pc = "done") => reqs'[s] = reqs[s]]_vars

C9_Witness ==
  \E s \in Slots :
    LET r == reqs[s]
    IN  /\ started = 1
        /\ r.pc = "done" /\ r.branch = "miss" /\ r.puts = 1
        /\ BagIn([key |-> r.cacheKey, response |-> CachedResponse(r.response)], pending)
        /\ r.cacheKey \notin DOMAIN store
        /\ r.returned.status = 200

(***************************************************************************)
(* C10: a miss is answered with X-Worker-Cache: MISS; a completed write    *)
(* puts the scheduled copy under its key; and a later cacheable request    *)
(* whose key has an entry is served as a HIT with the entry's body - the   *)
(* body the origin returned for that key - without an origin fetch.        *)
(***************************************************************************)
C10_MissThenHit ==
  /\ [](/\ \A s \in Slots :
             LET r == reqs[s]
             IN  /\ (r.pc = "done" /\ r.branch = "miss")
                       => /\ "x-worker-cache" \in DOMAIN r.returned.headers
                          /\ r.returned.headers["x-worker-cache"] = "MISS"
                 /\ (r.pc = "done" /\ r.branch = "hit")
                       => /\ r.fetches = 0
                          /\ r.returned.body = r.response.body
                          /\ FetchedFor(r.response, generateCacheKey(r.url, r.cookies))
        /\ \A k \in DOMAIN store : FetchedFor(store[k], k))
  /\ [][\A t \in BagToSet(pending) :
          (pending' = pending (-) SetToBag({t}) /\ store' # store)
            => (t.key \in DOMAIN store' /\ store'[t.key] = t.response)]_vars
  /\ [][\A s \in Slots :
          (/\ reqs[s].pc = "match"
           /\ reqs[s].cacheKey \in DOMAIN store
           /\ reqs'[s] # reqs[s]
           /\ reqs'[s].branch # "error")
            => /\ reqs'[s].pc = "done"
               /\ reqs'[s].fetches = 0
               /\ reqs'[s].returned.body = store[reqs[s].cacheKey].body]_vars

C10_Witness ==
  \E s \in Slots :
    LET r == reqs[s]
    IN  /\ started = 2
        /\ r.pc = "done" /\ r.branch = "hit" /\ r.fetches = 0
        /\ r.url.pathname = <<"/","a","b","o","u","t","-","u","s">>
        /\ r.returned.body = OriginBody("page-A", "GET", r.url, <<>>)
        /\ r.cookieHeader = <<"a","e","l","i","a","_","c","s","_","s","e","l","e","c","t","e","d","_","c","u","r","r","e","n","c","y","=","E","U","R">>

(***************************************************************************)
(* C11: every response returned on the hit, miss and bypass paths carries  *)
(* a cache-status header - HIT when it was served from the store, MISS     *)
(* when it was not - and the X-Cache-Key header with the computed key.     *)
(***************************************************************************)
C11_DiagnosticHeadersAlways ==
  \A s \in Slots :
    LET r == reqs[s]
    IN  (r.pc = "done" /\ r.branch \in {"hit", "miss", "bypass"})
          => /\ "cf-cache-status" \in DOMAIN r.returned.headers
             /\ r.returned.headers["cf-cache-status"] =
                  (IF r.branch = "hit" THEN "HIT" ELSE "MISS")
             /\ "x-cache-key" \in DOMAIN r.returned.headers
             /\ r.returned.headers["x-cache-key"] = generateCacheKey(r.url, r.cookies)

(***************************************************************************)
(* C12: a request whose handling raised (cookie parsing, store lookup,     *)
(* origin fetch) is answered with status 500 and body                      *)
(* 'Internal Server Error'; every finished request has a response; such a  *)
(* request scheduled no store write and the step that ended it changed     *)
(* neither the store nor the scheduled writes.                             *)
(***************************************************************************)
C12_ExceptionBecomes500 ==
  /\ [](\A s \in Slots :
          LET r == reqs[s]
          IN  /\ r.pc = "done" => r.returned # NoResponse
              /\ (r.pc = "done" /\ r.branch = "error")
                   => /\ r.returned.status = 500
                      /\ r.returned.body = <<"Internal Server Error">>
                      /\ r.puts = 0)
  /\ [][\A s \in Slots :
          (reqs[s].branch # "error" /\ reqs'[s].branch = "error")
            => (store' = store /\ pending' = pending)]_vars

C12_Witness ==
  \E s \in Slots :
    LET r == reqs[s]
    IN  /\ r.pc = "done" /\ r.branch = "error"
        /\ r.parsed /\ r.lookups = 1 /\ r.fetches = 1
        /\ r.returned.status = 500
        /\ \E s2 \in Slots :
             /\ reqs[s2].pc = "done" /\ reqs[s2].branch = "error"
             /\ ~reqs[s2].parsed

(***************************************************************************)
(* parseCookies as a function of the Cookie header                         *)
(***************************************************************************)
\* How many fragments a Cookie header holds.
MaxFragments == 3

CookieFragments ==
  { <<"a","=","1">>, <<"a","=","2">>, <<"a","=","b","=","c">>, <<"a","=","=","2">>, <<"b","=","x","%","2","0","y">>, <<"f","l","a","g">>, <<"=","v">>, <<"k","=">>, <<"p","=","%","z","z">> }

\* request.headers.get('Cookie') || '': an absent header is the empty string.
ParseHeaders ==
  { Join(fs, <<";"," ">>) :
      fs \in UNION {[1..n -> CookieFragments] : n \in 0..MaxFragments} }

InitParse ==
  /\ reqs = [s \in Slots |-> IdleReq]
  /\ store = [k \in {} |-> NoResponse]
  /\ pending = EmptyBag
  /\ started = 0
  /\ stale = {}
  /\ probe \in {[op |-> "parseCookies", cookieHeader |-> h, done |-> FALSE,
                 ok |-> TRUE, jar |-> EmptyJar] : h \in ParseHeaders}

ApplyParse ==
  /\ probe.op = "parseCookies"
  /\ ~probe.done
  /\ LET p == parseCookies(probe.cookieHeader)
     IN  probe' = [probe EXCEPT !.done = TRUE, !.ok = p.ok, !.jar = p.jar]
  /\ UNCHANGED <<reqs, store, pending, started, stale>>

NextParse == ApplyParse

SpecParse == InitParse /\ [][NextParse]_vars

(***************************************************************************)
(* Vocabulary of the cookie claims: the fragments of a header, and the     *)
(* name and value of a fragment split at its first '='.                    *)
(***************************************************************************)
ParseProbeDone == probe.op = "parseCookies" /\ probe.done

FragmentsOf(header) ==
  IF header = <<>> THEN <<>>
  ELSE LET raw == Split(header, ";") IN [i \in 1..Len(raw) |-> Trim(raw[i])]

FragmentName(f) ==
  LET i == IndexOf(f, "=") IN IF i = 0 THEN f ELSE SubSeq(f, 1, i - 1)

FragmentRawValue(f) ==
  LET i == IndexOf(f, "=") IN IF i = 0 THEN <<>> ELSE SubSeq(f, i + 1, Len(f))

WellFormedFragment(f) ==
  /\ IndexOf(f, "=") # 0
  /\ FragmentName(f) # <<>>
  /\ FragmentRawValue(f) # <<>>
  /\ decodeURIComponent(FragmentRawValue(f)).ok

FragmentValue(f) == decodeURIComponent(FragmentRawValue(f)).val

(***************************************************************************)
(* C13: for every Cookie header parseCookies returns a jar and does not    *)
(* raise, whatever malformed fragments the header holds.                   *)
(***************************************************************************)
C13_ParseNeverRaises == ParseProbeDone => probe.ok

(***************************************************************************)
(* C14: the jar parseCookies returns has no entry with an empty name or an *)
(* empty value; it is empty for the empty (or absent) header; and for      *)
(* every name it holds the value of the last well-formed fragment with     *)
(* that name.                                                              *)
(***************************************************************************)
C14_JarInvariant ==
  (ParseProbeDone /\ probe.ok)
    => LET frags == FragmentsOf(probe.cookieHeader)
       IN  /\ \A n \in DOMAIN probe.jar : n # <<>> /\ probe.jar[n] # <<>>
           /\ probe.cookieHeader = <<>> => probe.jar = EmptyJar
           /\ \A i \in 1..Len(frags) :
                (/\ WellFormedFragment(frags[i])
                 /\ \A j \in (i + 1)..Len(frags) :
                      ~(WellFormedFragment(frags[j])
                        /\ FragmentName(frags[j]) = FragmentName(frags[i])))
                  => /\ FragmentName(frags[i]) \in DOMAIN probe.jar
                     /\ probe.jar[FragmentName(frags[i])] = FragmentValue(frags[i])

(***************************************************************************)
(* C16: for a header of one fragment with a non-empty name before its      *)
(* first '=' and a non-empty, decodable text after it, the jar maps the    *)
(* name to the decoding of all the text after the first '='.               *)
(***************************************************************************)
C16_SplitOnFirstEquals ==
  (ParseProbeDone /\ probe.ok)
    => LET frags == FragmentsOf(probe.cookieHeader)
       IN  (Len(frags) = 1 /\ WellFormedFragment(frags[1]))
             => probe.jar = [n \in {FragmentName(frags[1])} |-> FragmentValue(frags[1])]

(***************************************************************************)
(* C15: a cacheable request whose key has a stale entry (older than the    *)
(* 24 hour TTL) is answered at once from the store, without waiting for    *)
(* the origin, and a background refresh of the entry is scheduled; a       *)
(* request answered from a fresh entry makes no origin fetch.              *)
(***************************************************************************)
C15_StaleWhileRevalidate ==
  /\ [](\A s \in Slots :
          (reqs[s].pc = "done" /\ reqs[s].branch = "hit") => reqs[s].fetches = 0)
  /\ [][\A s \in Slots :
          (/\ reqs[s].pc = "match"
           /\ reqs[s].cacheKey \in stale
           /\ reqs'[s] # reqs[s]
           /\ reqs'[s].branch # "error")
            => /\ reqs'[s].pc = "done"
               /\ reqs'[s].branch = "hit"
               /\ \E t \in BagToSet(pending') :
                    /\ t.key = reqs[s].cacheKey
                    /\ CopiesIn(t, pending') = CopiesIn(t, pending) + 1]_vars

(***************************************************************************)
(* Vocabulary of the concurrency claims                                    *)
(***************************************************************************)
\* `stored` is, whole, the stored copy of one success response the origin
\* gave to a cacheable GET request whose derived key is `key`.
WholeCopyFor(stored, key) ==
  /\ FetchedFor(stored, key)
  /\ \E o \in OriginResponses("GET", stored.body[3], stored.body[4]) :
       /\ IsSuccessStatus(o.status)
       /\ stored = [status  |-> o.status,
                    body    |-> o.body,
                    headers |-> WithHeaders(o.headers,
                                            [h \in {"cache-control"} |->
                                               <<"public, max-age=", 86400>>])]

(***************************************************************************)
(* C17: under every interleaving, the entry a HIT was served from, every   *)
(* store entry and every scheduled write under key K is the whole copy of  *)
(* one 2xx origin response fetched for a cacheable GET request with key K; *)
(* the store changes at K only by a scheduled write for K completing, and  *)
(* then holds exactly that write's response (last write wins); a resolved  *)
(* lookup ends in a miss when K has no entry and in the current entry      *)
(* otherwise.                                                              *)
(***************************************************************************)
C17_HitIsEarlierSuccessForSameKey ==
  /\ [](/\ \A s \in Slots :
             LET r == reqs[s]
             IN  (r.pc = "done" /\ r.branch = "hit")
                   => /\ WholeCopyFor(r.response, generateCacheKey(r.url, r.cookies))
                      /\ r.returned.status = r.response.status
                      /\ r.returned.body = r.response.body
        /\ \A k \in DOMAIN store : WholeCopyFor(store[k], k)
        /\ \A t \in BagToSet(pending) : WholeCopyFor(t.response, t.key))
  /\ [][\A k \in DOMAIN store' :
          (k \notin DOMAIN store \/ store'[k] # store[k])
            => \E t \in BagToSet(pending) :
                 /\ t.key = k
                 /\ store'[k] = t.response
                 /\ pending' = pending (-) SetToBag({t})]_vars
  /\ [][\A s \in Slots :
          (reqs[s].pc = "match" /\ reqs'[s] # reqs[s] /\ reqs'[s].branch # "error")
            => IF reqs[s].cacheKey \in DOMAIN store
               THEN reqs'[s].branch = "hit" /\ reqs'[s].response = store[reqs[s].cacheKey]
               ELSE reqs'[s].branch = "miss" /\ reqs'[s].pc = "fetch"]_vars

\* Two concurrent misses on one key fetched different pages and both scheduled
\* a write; page-B's write has completed, page-A's is still outstanding.
C17_Witness ==
  \E s1, s2 \in Slots :
    /\ s1 # s2
    /\ reqs[s1].pc = "done" /\ reqs[s1].branch = "miss" /\ reqs[s1].puts = 1
    /\ reqs[s2].pc = "done" /\ reqs[s2].branch = "miss" /\ reqs[s2].puts = 1
    /\ reqs[s1].cacheKey = reqs[s2].cacheKey
    /\ reqs[s1].response.body[1] = "page-A"
    /\ reqs[s2].response.body[1] = "page-B"
    /\ BagIn(PutTask(reqs[s1].cacheKey, CachedResponse(reqs[s1].response)), pending)
    /\ reqs[s2].cacheKey \in DOMAIN store
    /\ store[reqs[s2].cacheKey] = CachedResponse(reqs[s2].response)

(***************************************************************************)
(* C18: a scheduled store write eventually settles (completes or fails),   *)
(* given that the runtime keeps running the promises handed to             *)
(* ctx.waitUntil; no step of a request - its completion and its disposal   *)
(* included - removes a scheduled write.                                   *)
(***************************************************************************)
C18_ScheduledWriteSettles ==
  /\ [](\A t \in BagToSet(pending) : t \in PossibleTasks)
  /\ \A t \in PossibleTasks : BagIn(t, pending) ~> ~BagIn(t, pending)
  /\ [][\A t \in BagToSet(pending) :
          CopiesIn(t, pending') < CopiesIn(t, pending) => reqs' = reqs]_vars

\* A write is still outstanding although the request that scheduled it has
\* been answered and its state discarded.
C18_Witness ==
  /\ started = 1
  /\ \A s \in Slots : reqs[s].pc = "idle"
  /\ pending # EmptyBag

(***************************************************************************)
(* C19: a request touches the store only at its own key.  Its jar, bypass  *)
(* decision and key are functions of its own method, URL and Cookie        *)
(* header; a step of a request changes neither the store nor any other     *)
(* request; the outcome of its lookup is decided by the entry at its key;  *)
(* the write it schedules is for its key; and a write for K that completes *)
(* leaves the entry of every other key as it was.                          *)
(***************************************************************************)
C19_OnlyOwnKey ==
  /\ [](\A s \in Slots :
          LET r == reqs[s]
          IN  /\ r.parsed => r.cookies = parseCookies(r.cookieHeader).jar
              /\ r.branch = "bypass" => MeetsBypassCondition(r)
              /\ r.branch \in {"hit", "miss"}
                   => /\ ~MeetsBypassCondition(r)
                      /\ r.cacheKey = generateCacheKey(r.url, r.cookies))
  /\ [][\A s \in Slots :
          reqs'[s] # reqs[s]
            => /\ store' = store
               /\ \A s2 \in Slots \ {s} : reqs'[s2] = reqs[s2]]_vars
  /\ [][\A s \in Slots :
          (reqs[s].pc = "match" /\ reqs'[s] # reqs[s] /\ reqs'[s].branch # "error")
            => LET K == generateCacheKey(reqs[s].url, reqs[s].cookies)
               IN  /\ reqs'[s].branch = "hit" <=> K \in DOMAIN store
                   /\ reqs'[s].branch = "hit" => reqs'[s].response = store[K]]_vars
  /\ [][\A s \in Slots :
          (reqs'[s] # reqs[s] /\ pending' # pending)
            => \E t \in BagToSet(pending') :
                 /\ t.key = generateCacheKey(reqs[s].url, reqs[s].cookies)
                 /\ pending' = pending (+) SetToBag({t})]_vars
  /\ [][\A t \in BagToSet(pending) :
          pending' = pending (-) SetToBag({t})
            => \A k \in (DOMAIN store \cup DOMAIN store') \ {t.key} :
                 /\ k \in DOMAIN store /\ k \in DOMAIN store'
                 /\ store'[k] = store[k]]_vars

\* Two requests with different keys each had its write completed: both
\* entries are in the store, each the copy of its own request's response.
C19_Witness ==
  \E s1, s2 \in Slots :
    /\ reqs[s1].pc = "done" /\ reqs[s1].branch = "miss"
    /\ reqs[s2].pc = "done" /\ reqs[s2].branch = "miss"
    /\ reqs[s1].cacheKey # reqs[s2].cacheKey
    /\ pending = EmptyBag
    /\ DOMAIN store = {reqs[s1].cacheKey, reqs[s2].cacheKey}
    /\ store[reqs[s1].cacheKey] = CachedResponse(reqs[s1].response)
    /\ store[reqs[s2].cacheKey] = CachedResponse(reqs[s2].response)

(***************************************************************************)
(* C20: given that every store lookup and origin fetch settles, every      *)
(* request reaches DONE, and it is DONE with one response that no later    *)
(* step changes; a request makes at most one lookup, one origin fetch and  *)
(* one store write; the lookup is issued first, the origin fetch only      *)
(* after the lookup has resolved, and the write only when the fetch has    *)
(* returned.                                                               *)
(***************************************************************************)
C20_ReachesDoneOnce ==
  /\ \A s \in Slots : (reqs[s].pc # "idle") ~> (reqs[s].pc = "done")
  /\ [](\A s \in Slots :
          LET r == reqs[s]
          IN  /\ r.lookups <= 1 /\ r.fetches <= 1 /\ r.puts <= 1
              /\ r.puts = 1 => r.fetches = 1
              /\ r.pc = "done" => r.returned # NoResponse
              /\ r.pc # "done" => r.returned = NoResponse)
  /\ [][\A s \in Slots :
          /\ (reqs[s].pc = "done" /\ reqs'[s].pc # "idle") => reqs'[s] = reqs[s]
          /\ (reqs[s].pc # "idle" /\ reqs'[s].pc # "idle")
               => /\ reqs'[s].lookups = reqs[s].lookups
                  /\ reqs'[s].fetches > reqs[s].fetches
                       => (reqs[s].pc = "match" /\ reqs[s].lookups = 1 /\ reqs[s].puts = 0)
                  /\ reqs'[s].puts > reqs[s].puts
                       => (reqs[s].pc = "fetch" /\ reqs[s].fetches = 1)
          /\ (reqs[s].pc = "idle" /\ reqs'[s].pc # "idle")
               => /\ reqs'[s].puts = 0
                  /\ reqs'[s].lookups + reqs'[s].fetches <= 1]_vars

\* A request that made its lookup, then its origin fetch, then scheduled its
\* write is DONE with its response.
C20_Witness ==
  \E s \in Slots :
    LET r == reqs[s]
    IN  /\ r.pc = "done" /\ r.branch = "miss"
        /\ r.lookups = 1 /\ r.fetches = 1 /\ r.puts = 1
        /\ r.returned.status = 200
        /\ \E s2 \in Slots :
             /\ reqs[s2].pc = "done" /\ reqs[s2].branch = "bypass"
             /\ reqs[s2].lookups = 0 /\ reqs[s2].fetches = 1 /\ reqs[s2].puts = 0

=============================================================================
